---- MODULE Spec2Model ----
(***************************************************************************)
(* Observable managed attributes (observable_properties.py).               *)
(*                                                                         *)
(* One class, Test, with the observable property "value", the ordinary     *)
(* property "name", and two instances.  The descriptor observable.__set__  *)
(* runs as a call stack of frames, one step per loop iteration, callback   *)
(* body, return or exception unwinding, so that callbacks that assign the  *)
(* observed property re-enter __set__ as they do in Python.                *)
(***************************************************************************)
EXTENDS Naturals, Sequences, FiniteSets, TLC

\* ---------------------------------------------------------------- bounds
\* Values assigned by top-level writes are 0..MaxValue.
MaxValue == 1
\* Closures created by the Observable.subscribe decorator.
MaxClosures == 1
\* Length of the subscribers list.
MaxSubscribers == 2
\* Frames on the call stack before the interpreter raises RecursionError.
RecursionLimit == 7

\* ------------------------------------------------------- the test fixture
\* item = Test(); not_used = Test()
Instances == {"item", "not_used"}

\* instance.__class__.__name__
ClassName(instance) == "Test"

\* Names passed as property_name: the observable property, the ordinary
\* property and a name that does not exist.
PropertyNames == {"value", "name", "foo"}

\* Functions used as observers.  observer1 and observer_after record the
\* notified value, invalid_observer assigns the observed property,
\* failing_observer raises an exception of its own.
Functions == {"observer1", "observer_after", "invalid_observer", "failing_observer"}

\* What the body of an observer does.
\*   catching_observer: try: item.value = value + 1
\*                      except ObservablePropertyError: pass
\*   leaving_observer:  unsubscribe(leaving_observer, instance, property_name)
\*   async_observer:    await sleep(1), then print
Behaviour(fn) ==
    CASE fn = "invalid_observer" -> "assign"
      [] fn = "failing_observer" -> "raise"
      [] fn = "catching_observer" -> "catch"
      [] fn = "leaving_observer" -> "leave"
      [] fn = "async_observer" -> "await"
      [] OTHER -> "record"

\* The function is defined with `async def`.
IsAsyncDef(fn) == Behaviour(fn) = "await"

\* A callback identity: a plain function (id 0) or the id-th closure
\* `callback` built by the Observable.subscribe decorator around fn.
\* functools.wraps copies __name__, so the closure keeps the name fn.
Function(fn) == [fn |-> fn, id |-> 0]
Closure(fn, id) == [fn |-> fn, id |-> id]

\* ------------------------------------------------------ observable class
\* observable.__set_name__: the attribute names derived from the property.
SubscribersAttr(property_name) == "__" \o property_name \o "_subscribers"
RecursionsAttr(property_name) == "__" \o property_name \o "_recursions"

\* The properties declared with @observable in class Test.
ObservableProperties == {"value"}

\* Attributes found on an instance of Test: its own, those of the class
\* body, those of Observable, and the ones __set_name__ added to the class.
Attributes ==
    {"_value", "_name", "value", "name", "subscribe", "unsubscribe"}
    \cup {SubscribersAttr(p) : p \in ObservableProperties}
    \cup {RecursionsAttr(p) : p \in ObservableProperties}

hasattr(instance, attr) == attr \in Attributes

\* ------------------------------------------------------------ exceptions
NoException == [type |-> "", text |-> "", observer |-> "", cls |-> "", prop |-> ""]

\* __set__, lines 111-114
MutationText == "is not allowed to modify observable property"
MutationError(observer, instance, property_name) ==
    [type |-> "ObservablePropertyError",
     text |-> MutationText,
     observer |-> observer.fn, cls |-> ClassName(instance), prop |-> property_name]

\* subscribe / unsubscribe, lines 196-198 and 223-225
NotObservableError(instance, property_name) ==
    [type |-> "ObservablePropertyError",
     text |-> "is not an observable property of",
     observer |-> "", cls |-> ClassName(instance), prop |-> property_name]

\* Raised by the interpreter when the call stack is full.
RecursionError ==
    [type |-> "RecursionError", text |-> "", observer |-> "", cls |-> "", prop |-> ""]

\* The exception raised by failing_observer.
ObserverFailure ==
    [type |-> "RuntimeError", text |-> "", observer |-> "", cls |-> "", prop |-> ""]

\* ----------------------------------------------------------------- state
VARIABLES
    subscribers,   \* Test.__value_subscribers, shared by all instances
    recursions,    \* Test.__value_recursions, shared by all instances
    _value,        \* instance -> its _value field
    wrappers,      \* closures created by the decorator so far
    stack,         \* call stack: __set__ frames and observer frames
    exc,           \* exception in flight, NoException if none
    call,          \* the top-level call in progress or last finished
    before,        \* subscribers and _value when that call began
    raised,        \* exception that escaped the last top-level call
    returned,      \* its return value ("None", "True", "False")
    log,           \* observers invoked since the top-level call began
    rejected       \* the last finished top-level write raised the error of lines 111-114

vars == <<subscribers, recursions, _value, wrappers, stack, exc, call,
          before, raised, returned, log, rejected>>

NoCall ==
    [op |-> "", instance |-> "", name |-> "", value |-> 0,
     callback |-> Function(""), follows |-> FALSE]

Init ==
    /\ subscribers = <<>>
    /\ recursions = <<>>
    /\ _value = [i \in Instances |-> 0]
    /\ wrappers = {}
    /\ stack = <<>>
    /\ exc = NoException
    /\ call = NoCall
    /\ before = [subscribers |-> <<>>, _value |-> [i \in Instances |-> 0]]
    /\ raised = NoException
    /\ returned = "None"
    /\ log = <<>>
    /\ rejected = FALSE

\* ---------------------------------------------------------------- helpers
Range(s) == {s[k] : k \in 1..Len(s)}

\* list.remove(x): drops the first occurrence of x.
RemoveHead(s, x) == IF s = <<>> THEN s ELSE Tail(s)

RECURSIVE Remove(_, _)
Remove(s, x) ==
    IF s = <<>> THEN <<>>
    ELSE IF Head(s) = x THEN Tail(s)
    ELSE <<Head(s)>> \o Remove(Tail(s), x)

\* No call is running.
Idle == stack = <<>> /\ exc = NoException

\* The script is between two statements: the outcome of the last top-level
\* call has been looked at and dropped.
Ready == Idle /\ call = NoCall

Top == stack[Len(stack)]
Pop == SubSeq(stack, 1, Len(stack) - 1)

Snapshot == [subscribers |-> subscribers, _value |-> _value]

\* The property getter of Test.value: return self._value
Read(instance) == _value[instance]

\* The property setter of Test.value: self._value = value
Fset(store, instance, value) == [store EXCEPT ![instance] = value]

\* --------------------------------------------- subscribe and unsubscribe
\* def subscribe(callback, instance, property_name), lines 179-198
subscribe_unchecked(callback, instance, property_name) ==
    /\ subscribers' = IF callback \in Range(subscribers)
                      THEN subscribers
                      ELSE Append(subscribers, callback)
    /\ raised' = NoException

subscribe_appending(callback, instance, property_name) ==
    IF hasattr(instance, SubscribersAttr(property_name))
    THEN /\ subscribers' = Append(subscribers, callback)
         /\ raised' = NoException
    ELSE /\ subscribers' = subscribers
         /\ raised' = NotObservableError(instance, property_name)

subscribe(callback, instance, property_name) ==
    IF hasattr(instance, SubscribersAttr(property_name))
    THEN /\ subscribers' = IF callback \in Range(subscribers)
                           THEN subscribers
                           ELSE Append(subscribers, callback)
         /\ raised' = NoException
    ELSE /\ subscribers' = subscribers
         /\ raised' = NotObservableError(instance, property_name)

\* def unsubscribe(callback, instance, property_name), lines 201-225
unsubscribe_returning_false(callback, instance, property_name) ==
    /\ subscribers' = IF hasattr(instance, SubscribersAttr(property_name))
                      THEN Remove(subscribers, callback)
                      ELSE subscribers
    /\ returned' = IF /\ hasattr(instance, SubscribersAttr(property_name))
                      /\ callback \in Range(subscribers)
                   THEN "True" ELSE "False"
    /\ raised' = NoException

unsubscribe_reporting_true(callback, instance, property_name) ==
    IF hasattr(instance, SubscribersAttr(property_name))
    THEN /\ subscribers' = Remove(subscribers, callback)
         /\ returned' = "True"
         /\ raised' = NoException
    ELSE /\ subscribers' = subscribers
         /\ returned' = "None"
         /\ raised' = NotObservableError(instance, property_name)

unsubscribe(callback, instance, property_name) ==
    IF hasattr(instance, SubscribersAttr(property_name))
    THEN /\ subscribers' = Remove(subscribers, callback)
         /\ returned' = IF callback \in Range(subscribers) THEN "True" ELSE "False"
         /\ raised' = NoException
    ELSE /\ subscribers' = subscribers
         /\ returned' = "None"
         /\ raised' = NotObservableError(instance, property_name)

\* Observable.subscribe(self, property_name) applied as a decorator to func,
\* lines 150-171: a new closure `callback` is built around func and
\* subscribed; the decorated name is bound to it only if subscribe returns.
Observable_subscribe(self, property_name, func) ==
    LET callback == Closure(func, Cardinality(wrappers) + 1) IN
    /\ subscribe(callback, self, property_name)
    /\ wrappers' = IF hasattr(self, SubscribersAttr(property_name))
                   THEN wrappers \cup {callback}
                   ELSE wrappers

\* Observable.unsubscribe(self, property_name, callback), lines 137-148
Observable_unsubscribe(self, property_name, callback) ==
    unsubscribe(callback, self, property_name)

\* The callbacks a caller can name: plain functions and returned closures.
Known == {Function(fn) : fn \in Functions} \cup wrappers

\* A top-level call of subscribe().
Subscribe(callback, instance, property_name) ==
    /\ Ready
    /\ Len(subscribers) < MaxSubscribers
    /\ subscribe(callback, instance, property_name)
    /\ call' = [op |-> "subscribe", instance |-> instance, name |-> property_name,
                value |-> 0, callback |-> callback, follows |-> rejected]
    /\ before' = Snapshot
    /\ returned' = "None"
    /\ log' = <<>>
    /\ UNCHANGED <<recursions, _value, wrappers, stack, exc, rejected>>

\* A top-level use of the decorator @instance.subscribe(property_name).
FacadeSubscribe(func, instance, property_name) ==
    /\ Ready
    /\ Len(subscribers) < MaxSubscribers
    /\ Cardinality(wrappers) < MaxClosures
    /\ Observable_subscribe(instance, property_name, func)
    /\ call' = [op |-> "Observable.subscribe", instance |-> instance,
                name |-> property_name, value |-> 0,
                callback |-> Closure(func, Cardinality(wrappers) + 1),
                follows |-> rejected]
    /\ before' = Snapshot
    /\ returned' = "None"
    /\ log' = <<>>
    /\ UNCHANGED <<recursions, _value, stack, exc, rejected>>

\* A top-level call of unsubscribe().
Unsubscribe(callback, instance, property_name) ==
    /\ Ready
    /\ unsubscribe(callback, instance, property_name)
    /\ call' = [op |-> "unsubscribe", instance |-> instance, name |-> property_name,
                value |-> 0, callback |-> callback, follows |-> rejected]
    /\ before' = Snapshot
    /\ log' = <<>>
    /\ UNCHANGED <<recursions, _value, wrappers, stack, exc, rejected>>

\* A top-level call of instance.unsubscribe().
FacadeUnsubscribe(callback, instance, property_name) ==
    /\ Ready
    /\ Observable_unsubscribe(instance, property_name, callback)
    /\ call' = [op |-> "Observable.unsubscribe", instance |-> instance,
                name |-> property_name, value |-> 0, callback |-> callback,
                follows |-> rejected]
    /\ before' = Snapshot
    /\ log' = <<>>
    /\ UNCHANGED <<recursions, _value, wrappers, stack, exc, rejected>>

\* ------------------------------------------------------ observable.__set__
\* self.observable_property, set by __set_name__ (line 125)
observable_property == "value"

SetFrame(instance, value) ==
    [kind |-> "set", observer |-> Function(""), instance |-> instance,
     value |-> value, i |-> 0, pc |-> ""]

\* iscoroutinefunction(observer) (lines 106 and 163)
iscoroutinefunction_false(observer) == FALSE
iscoroutinefunction(observer) == IsAsyncDef(observer.fn)

\* The call of an observer (lines 106-109, 163-166).  A coroutine function
\* is run to completion by asyncio.run; called without it, it only builds
\* a coroutine object and its body never runs.
CallFrame(observer, instance, value) ==
    [kind |-> "call", observer |-> observer, instance |-> instance,
     value |-> value, i |-> 0,
     pc |-> IF IsAsyncDef(observer.fn) /\ ~iscoroutinefunction(observer)
            THEN "discarded" ELSE "body"]

\* Nesting level of the __set__ on top of the stack.
Level == Cardinality({k \in 1..Len(stack) : stack[k].kind = "set"})

InSet == stack # <<>> /\ exc = NoException /\ Top.kind = "set"
InNotify == stack # <<>> /\ exc = NoException /\ Top.kind = "notify"
InLoop == InSet \/ InNotify
InCall == stack # <<>> /\ exc = NoException /\ Top.kind = "call"

\* for observer in subscribers (line 103): the list iterator yields the
\* element at its index, and stops when the index is past the end.
HasNextShort(list, i) == i + 1 < Len(list)
HasNext(list, i) == i < Len(list)

NextObserverReversed(list, i) == list[Len(list) - i]
NextObserver(list, i) == list[i + 1]

\* getattr(__instance, self.subscribers) (line 100): no instance has the
\* attribute itself, so the lookup finds the list of the class.
SubscribersOwn(instance) == IF instance = "item" THEN subscribers ELSE <<>>
Subscribers(instance) == subscribers

\* getattr(__instance, self.recursions) (line 101): the list of the class.
GuardOwn(instance) == IF instance = stack[1].instance THEN recursions ELSE <<>>
Guard(instance) == recursions

\* observer in recursions (line 104)
NeverInRecursions(observer, list) == FALSE
InRecursions(observer, list) == observer \in Range(list)

\* instance.value = value as a statement of the script: __set__ is entered
\* (lines 99-101) with the instance's storage as given.
Enter(instance, value, store) ==
    /\ Ready
    /\ _value' = store
    /\ stack' = <<SetFrame(instance, value)>>
    /\ call' = [op |-> "assign", instance |-> instance, name |-> observable_property,
                value |-> value, callback |-> Function(""), follows |-> rejected]
    /\ before' = Snapshot
    /\ raised' = NoException
    /\ returned' = "None"
    /\ log' = <<>>
    /\ UNCHANGED <<subscribers, recursions, wrappers, exc, rejected>>

\* A top-level assignment instance.value = value.  Nothing is stored on
\* entry: super().__set__ is the last statement of __set__ (line 117).
AssignStoringFirst(instance, value) == Enter(instance, value, Fset(_value, instance, value))
Assign(instance, value) == Enter(instance, value, _value)

\* Lines 103-109: the next observer is not in recursions; it is appended
\* and called with (instance, property name, value).
SetInvoke ==
    /\ InLoop
    /\ HasNext(Subscribers(Top.instance), Top.i)
    /\ LET observer == NextObserver(Subscribers(Top.instance), Top.i) IN
       /\ ~InRecursions(observer, Guard(Top.instance))
       /\ recursions' = Append(recursions, observer)
       /\ stack' = Append([stack EXCEPT ![Len(stack)].i = @ + 1],
                          [CallFrame(observer, Top.instance, Top.value)
                              EXCEPT !.i = Len(log) + 1])
       /\ log' = Append(log, [observer |-> observer, instance |-> Top.instance,
                              property_name |-> observable_property,
                              value |-> Top.value, seen |-> Read(Top.instance),
                              level |-> Level, finish |-> 0])
    /\ UNCHANGED <<subscribers, _value, wrappers, exc, call, before, raised,
                   returned, rejected>>

\* Lines 110-114: the next observer is already in recursions; raise.
SetReject ==
    /\ InLoop
    /\ HasNext(Subscribers(Top.instance), Top.i)
    /\ LET observer == NextObserver(Subscribers(Top.instance), Top.i) IN
       /\ InRecursions(observer, Guard(Top.instance))
       /\ exc' = MutationError(observer, Top.instance, observable_property)
    /\ UNCHANGED <<subscribers, recursions, _value, wrappers, stack, call, before,
                   raised, returned, log, rejected>>

\* Lines 115-117: the loop ended; finally clears recursions and __set__
\* returns, leaving `store` as the instances' storage.
Return(store) ==
    /\ InLoop
    /\ ~HasNext(Subscribers(Top.instance), Top.i)
    /\ recursions' = <<>>
    /\ _value' = store
    /\ stack' = Pop
    /\ rejected' = IF Len(stack) = 1 THEN FALSE ELSE rejected
    /\ UNCHANGED <<subscribers, wrappers, exc, call, before, raised, returned, log>>

\* Line 117: super().__set__ runs the setter, which stores the value.
SetCommitNotStoring == InSet /\ Return(_value)
SetCommit == InSet /\ Return(Fset(_value, Top.instance, Top.value))

\* The observer on top of the stack makes the assignment
\* item.value = value + 1: __set__ is entered, unless the call stack is full.
Nested(pc) ==
    IF Len(stack) < RecursionLimit
    THEN /\ stack' = Append([stack EXCEPT ![Len(stack)].pc = pc],
                            SetFrame("item", Top.value + 1))
         /\ exc' = exc
    ELSE /\ stack' = stack
         /\ exc' = RecursionError

\* The body of the observer on top of the stack.
CallbackBody ==
    /\ InCall
    /\ Top.pc = "body"
    /\ CASE Behaviour(Top.observer.fn) = "record" ->
              \* observer1, observer_after: store the value and return
              /\ stack' = [stack EXCEPT ![Len(stack)].pc = "return"]
              /\ exc' = exc
              /\ subscribers' = subscribers
         [] Behaviour(Top.observer.fn) = "assign" ->
              \* invalid_observer: item.value = value + 1
              /\ Nested("return")
              /\ subscribers' = subscribers
         [] Behaviour(Top.observer.fn) = "raise" ->
              /\ stack' = stack
              /\ exc' = ObserverFailure
              /\ subscribers' = subscribers
         [] Behaviour(Top.observer.fn) = "catch" ->
              \* catching_observer: the assignment is made inside try
              /\ Nested("guarded")
              /\ subscribers' = subscribers
         [] Behaviour(Top.observer.fn) = "leave" ->
              \* leaving_observer: unsubscribe() removes it from the list
              /\ stack' = [stack EXCEPT ![Len(stack)].pc = "return"]
              /\ exc' = exc
              /\ subscribers' = Remove(subscribers, Top.observer)
         [] Behaviour(Top.observer.fn) = "await" ->
              \* async_observer: suspended in await sleep(1)
              /\ stack' = [stack EXCEPT ![Len(stack)].pc = "sleeping"]
              /\ exc' = exc
              /\ subscribers' = subscribers
    /\ UNCHANGED <<recursions, _value, wrappers, call, before, raised,
                   returned, log, rejected>>

\* asyncio.run resumes the coroutine when its sleep is over; the rest of
\* its body runs.
Resume ==
    /\ InCall
    /\ Top.pc = "sleeping"
    /\ stack' = [stack EXCEPT ![Len(stack)].pc = "return"]
    /\ UNCHANGED <<subscribers, recursions, _value, wrappers, exc, call, before,
                   raised, returned, log, rejected>>

\* The except clause of the observer on top of the stack handles exc.
Handles ==
    /\ stack # <<>>
    /\ Top.kind = "call"
    /\ Top.pc = "guarded"
    /\ exc.type = "ObservablePropertyError"

\* catching_observer: except ObservablePropertyError: pass
Catch ==
    /\ Handles
    /\ exc' = NoException
    /\ stack' = [stack EXCEPT ![Len(stack)].pc = "return"]
    /\ UNCHANGED <<subscribers, recursions, _value, wrappers, call, before,
                   raised, returned, log, rejected>>

\* The observer on top of the stack returns to the loop of __set__.  Its
\* body has run to its end, unless it was a coroutine that was never run.
CallbackReturn ==
    /\ InCall
    /\ Top.pc \in {"return", "guarded", "discarded"}
    /\ stack' = Pop
    /\ log' = IF Top.pc = "discarded"
              THEN log
              ELSE [log EXCEPT ![Top.i].finish =
                       1 + Cardinality({k \in 1..Len(log) : log[k].finish # 0})]
    /\ UNCHANGED <<subscribers, recursions, _value, wrappers, exc, call, before,
                   raised, returned, rejected>>

\* An exception that the frame on top of the stack does not handle leaves
\* it, and escapes the top-level call when the last frame is left.  `guard`
\* and `store` are recursions and _value as __set__ leaves them when the
\* exception passes through it.
Leave(guard, store) ==
    /\ stack # <<>>
    /\ exc # NoException
    /\ ~Handles
    /\ recursions' = IF Top.kind \in {"set", "notify"} THEN guard ELSE recursions
    /\ _value' = IF Top.kind = "set" THEN store ELSE _value
    /\ stack' = Pop
    /\ IF Len(stack) = 1
       THEN /\ exc' = NoException
            /\ raised' = exc
            /\ rejected' = (exc.text = MutationText)
       ELSE UNCHANGED <<exc, raised, rejected>>
    /\ UNCHANGED <<subscribers, wrappers, call, before, returned, log>>

\* Exception unwinding.  The finally clause of __set__ (lines 115-116)
\* clears recursions; line 117 is not reached, so nothing is stored.
UnwindKeepingGuard == Leave(recursions, _value)
UnwindStoring == Leave(<<>>, Fset(_value, Top.instance, Top.value))
Unwind == Leave(<<>>, _value)

\* The script goes on to its next statement; the outcome of the finished
\* call is dropped.
Continue ==
    /\ Idle
    /\ call # NoCall
    /\ call' = NoCall
    /\ before' = Snapshot
    /\ raised' = NoException
    /\ returned' = "None"
    /\ log' = <<>>
    /\ UNCHANGED <<subscribers, recursions, _value, wrappers, stack, exc, rejected>>

\* ------------------------------------------------------ manual notification
\* Observable._observable_notify(self, property_name, value): runs the
\* observers of the property as a write does, without storing anything;
\* raises the not-observable error for any other name.
NotifyFrame(instance, value) ==
    [kind |-> "notify", observer |-> Function(""), instance |-> instance,
     value |-> value, i |-> 0, pc |-> ""]

_observable_notify(self, property_name, value) ==
    /\ Ready
    /\ IF hasattr(self, SubscribersAttr(property_name))
       THEN /\ stack' = <<NotifyFrame(self, value)>>
            /\ raised' = NoException
       ELSE /\ stack' = stack
            /\ raised' = NotObservableError(self, property_name)
    /\ call' = [op |-> "notify", instance |-> self, name |-> property_name,
                value |-> value, callback |-> Function(""), follows |-> rejected]
    /\ before' = Snapshot
    /\ returned' = "None"
    /\ log' = <<>>
    /\ UNCHANGED <<subscribers, recursions, _value, wrappers, exc, rejected>>

\* The observers have run: the guard is cleared and nothing is stored.
NotifyReturn == InNotify /\ Return(_value)

\* Test.indirect(value) and Test.indirect_failure(value), tests.py 41-45
Indirect(instance, value) == _observable_notify(instance, "value", value * 2)
IndirectFailure(instance, value) == _observable_notify(instance, "name", value * 2)

\* ---------------------------------------------------------- specification
\* Functions decorated with @instance.subscribe(...)
Decorated == {"observer1"}

Next ==
    \/ \E callback \in Known, instance \in Instances, name \in PropertyNames :
          Subscribe(callback, instance, name)
    \/ \E func \in Decorated, instance \in Instances, name \in PropertyNames :
          FacadeSubscribe(func, instance, name)
    \/ \E callback \in Known, instance \in Instances, name \in PropertyNames :
          Unsubscribe(callback, instance, name)
    \/ \E callback \in Known, instance \in Instances, name \in PropertyNames :
          FacadeUnsubscribe(callback, instance, name)
    \/ \E instance \in Instances, value \in 0..MaxValue :
          Assign(instance, value)
    \/ SetInvoke
    \/ SetReject
    \/ SetCommit
    \/ CallbackBody
    \/ CallbackReturn
    \/ Unwind
    \/ Continue

Spec == Init /\ [][Next]_vars

\* The script of tests.py 197-208: observers are subscribed to "value" and
\* the methods indirect and indirect_failure are called, besides writes.
NextNotify ==
    \/ \E callback \in Known, instance \in Instances :
          Subscribe(callback, instance, "value")
    \/ \E instance \in Instances, value \in 0..MaxValue :
          Assign(instance, value)
    \/ \E instance \in Instances, value \in 0..MaxValue :
          Indirect(instance, value)
    \/ \E instance \in Instances, value \in 0..MaxValue :
          IndirectFailure(instance, value)
    \/ SetInvoke
    \/ SetReject
    \/ SetCommit
    \/ NotifyReturn
    \/ CallbackBody
    \/ CallbackReturn
    \/ Unwind
    \/ Continue

SpecNotify == Init /\ [][NextNotify]_vars

\* A script that subscribes through item, unsubscribes through not_used and
\* writes to both instances.
NextShared ==
    \/ \E callback \in Known : Subscribe(callback, "item", "value")
    \/ \E callback \in Known : Unsubscribe(callback, "not_used", "value")
    \/ \E instance \in Instances, value \in 0..MaxValue :
          Assign(instance, value)
    \/ SetInvoke
    \/ SetReject
    \/ SetCommit
    \/ CallbackBody
    \/ CallbackReturn
    \/ Unwind
    \/ Continue

SpecShared == Init /\ [][NextShared]_vars

\* A script whose observers write to the property while they are notified;
\* catching_observer handles the error of its nested write.
NestedFunctions == {"catching_observer", "invalid_observer", "observer1"}

NextNested ==
    \/ \E fn \in NestedFunctions : Subscribe(Function(fn), "item", "value")
    \/ \E fn \in NestedFunctions : Unsubscribe(Function(fn), "item", "value")
    \/ \E value \in 0..MaxValue : Assign("item", value)
    \/ SetInvoke
    \/ SetReject
    \/ SetCommit
    \/ CallbackBody
    \/ Catch
    \/ CallbackReturn
    \/ Unwind
    \/ Continue

SpecNested == Init /\ [][NextNested]_vars

\* A script with an asynchronous observer (tests.py 188-195).
AsyncFunctions == {"async_observer", "observer1", "observer_after"}

NextAsync ==
    \/ \E fn \in AsyncFunctions : Subscribe(Function(fn), "item", "value")
    \/ \E fn \in AsyncFunctions : Unsubscribe(Function(fn), "item", "value")
    \/ \E value \in 0..MaxValue : Assign("item", value)
    \/ SetInvoke
    \/ SetCommit
    \/ CallbackBody
    \/ Resume
    \/ CallbackReturn
    \/ Continue

SpecAsync == Init /\ [][NextAsync]_vars

\* A script with an observer that unsubscribes itself when notified.
LeavingFunctions == {"leaving_observer", "observer1", "observer_after"}

NextLeaving ==
    \/ \E fn \in LeavingFunctions : Subscribe(Function(fn), "item", "value")
    \/ \E fn \in LeavingFunctions : Unsubscribe(Function(fn), "item", "value")
    \/ \E value \in 0..MaxValue : Assign("item", value)
    \/ SetInvoke
    \/ SetCommit
    \/ CallbackBody
    \/ CallbackReturn
    \/ Continue

SpecLeaving == Init /\ [][NextLeaving]_vars

\* ------------------------------------------------------------ properties
\* A top-level write has finished; it returned, or an exception escaped it.
WriteDone == Idle /\ call.op = "assign"
WriteReturned == WriteDone /\ raised = NoException
WriteRejected == WriteDone /\ raised.text = MutationText

\* Positions of the log where observer cb was invoked.
Invocations(cb) == {k \in 1..Len(log) : log[k].observer = cb}

\* An observer whose body assigns the observed property was invoked.
Reentered == \E k \in 1..Len(log) : Behaviour(log[k].observer.fn) = "assign"

\* No subscribed observer assigns the property or raises.
Harmless(list) == \A k \in 1..Len(list) : Behaviour(list[k].fn) = "record"

\* C1: a write that returns has invoked the observers subscribed when it
\* began in subscription order: for A subscribed before B, A and B are
\* each invoked exactly once, A before B, each with (instance, "value", v).
\* While a write runs, and when an exception ends it early, the observers
\* invoked so far are the first ones of the list, in that order.
C1_SubscriptionOrder ==
    call.op = "assign" =>
        /\ Len(log) <= Len(before.subscribers)
        /\ \A k \in 1..Len(log) :
              /\ log[k].observer = before.subscribers[k]
              /\ log[k].instance = call.instance
              /\ log[k].property_name = "value"
              /\ log[k].value = call.value
        /\ WriteReturned =>
              \A a, b \in 1..Len(before.subscribers) :
                 a < b =>
                    LET A == before.subscribers[a]
                        B == before.subscribers[b]
                    IN /\ Cardinality(Invocations(A)) = 1
                       /\ Cardinality(Invocations(B)) = 1
                       /\ \A i \in Invocations(A), j \in Invocations(B) : i < j

C1_Witness ==
    /\ WriteReturned
    /\ Len(before.subscribers) = 2
    /\ Len(log) = 2
    /\ log[1].observer = Function("observer1")
    /\ log[2].observer = Function("observer_after")
    /\ call.value = 1

\* C2: every observer is notified before the value is stored (the source
\* has this one phase): what it reads from the property during a write of
\* v is the value held when the write began, and its argument is v.
C2_BeforeSeesOldValue ==
    call.op = "assign" =>
        \A k \in 1..Len(log) :
           log[k].level = 1 =>
              /\ log[k].seen = before._value[call.instance]
              /\ log[k].value = call.value

C2_Witness ==
    /\ call.op = "assign"
    /\ InCall
    /\ Top.pc = "body"
    /\ before._value[call.instance] = 0
    /\ call.value = 1
    /\ log[Len(log)].seen = 0
    /\ log[Len(log)].value = 1

\* C3 (as claimed): an observer subscribed without naming a phase runs
\* after the value is stored: during a write of v it reads v.
C3_DefaultSeesNewValue ==
    call.op = "assign" =>
        \A k \in 1..Len(log) : log[k].level = 1 => log[k].seen = call.value

\* C4: once a write of v has returned, a read of the property on the same
\* instance gives v, whatever is subscribed.
C4_ReadAfterWrite ==
    WriteReturned => Read(call.instance) = call.value

C4_Witness ==
    /\ WriteReturned
    /\ before._value[call.instance] # call.value
    /\ Len(log) = 2
    /\ Read(call.instance) = call.value

\* C5: when an observer assigns the property it is being notified about,
\* the write ends with the error of lines 111-114 and __set__ is never
\* nested more than twice; recursions is empty afterwards, and the next
\* write, made with no assigning or raising observer subscribed, returns,
\* stores its value and notifies every subscriber.
C5_ReentrantWriteRejected ==
    /\ Level <= 2
    /\ (WriteDone /\ Reentered) =>
          /\ raised.type = "ObservablePropertyError"
          /\ raised.text = MutationText
          /\ recursions = <<>>
    /\ (WriteDone /\ call.follows /\ Harmless(before.subscribers)) =>
          /\ raised = NoException
          /\ Read(call.instance) = call.value
          /\ Len(log) = Len(before.subscribers)

C5_Witness ==
    /\ WriteReturned
    /\ call.follows
    /\ Function("invalid_observer") \notin Range(subscribers)
    /\ Len(log) = 1
    /\ Read(call.instance) = 1
    /\ before._value[call.instance] = 0

\* C6: when the error of lines 111-114 escapes a write, nothing has been
\* stored: every instance holds the value it held when the write began.
C6_RejectedWriteNotStored ==
    WriteRejected => _value = before._value

C6_Witness ==
    /\ WriteRejected
    /\ call.value # before._value[call.instance]
    /\ Len(log) = 2
    /\ _value = before._value

\* C7 (as claimed): the error names the observer that made the re-entrant
\* assignment, with the class of the instance and the property name.
C7_ErrorNamesOffender ==
    WriteRejected =>
        /\ raised.observer = log[Len(log)].observer.fn
        /\ raised.cls = ClassName(call.instance)
        /\ raised.prop = "value"

\* C8: whenever no write is in progress recursions is empty, whether the
\* last write returned, was rejected, or was ended by another exception
\* raised by an observer.
C8_GuardCleared ==
    stack = <<>> => recursions = <<>>

C8_Witness ==
    /\ WriteDone
    /\ raised = ObserverFailure
    /\ Len(log) = 2
    /\ recursions = <<>>

Unsubscribed ==
    /\ Idle
    /\ call.op \in {"unsubscribe", "Observable.unsubscribe"}
    /\ call.name \in ObservableProperties

\* A call of subscribe() on the observable property has finished.
Subscribed ==
    /\ Idle
    /\ call.op = "subscribe"
    /\ call.name \in ObservableProperties

\* C11: unsubscribing a callback that is not subscribed to the observable
\* property returns False, raises nothing and leaves the list as it was, so
\* later writes notify the same observers.
C11_UnsubscribeAbsent ==
    (Unsubscribed /\ call.callback \notin Range(before.subscribers)) =>
        /\ returned = "False"
        /\ raised = NoException
        /\ subscribers = before.subscribers

C11_Witness ==
    /\ Unsubscribed
    /\ call.callback = Function("observer_after")
    /\ subscribers = <<Function("observer1")>>
    /\ returned = "False"

\* C12: a callback is in the list at most once.  Subscribing a callback
\* that is already subscribed changes nothing, a write that returns has
\* invoked every subscriber exactly once, and after an unsubscribe that
\* returned True the callback is not in the list any more.
C12_SubscribeIdempotent ==
    /\ \A i, j \in 1..Len(subscribers) : i # j => subscribers[i] # subscribers[j]
    /\ (Subscribed /\ call.callback \in Range(before.subscribers)) =>
          /\ subscribers = before.subscribers
          /\ raised = NoException
    /\ WriteReturned =>
          \A cb \in Range(before.subscribers) : Cardinality(Invocations(cb)) = 1
    /\ (Unsubscribed /\ returned = "True") => call.callback \notin Range(subscribers)

C12_Witness ==
    /\ Subscribed
    /\ call.callback \in Range(before.subscribers)
    /\ subscribers = before.subscribers
    /\ Len(subscribers) = 1

\* C13: unsubscribing a subscribed callback returns True and removes it,
\* leaving the others in their order.  A write invokes only callbacks that
\* were subscribed when it began, and a write that returns has invoked all
\* of them.
C13_UnsubscribeRemoves ==
    /\ (Unsubscribed /\ call.callback \in Range(before.subscribers)) =>
          /\ returned = "True"
          /\ raised = NoException
          /\ call.callback \notin Range(subscribers)
          /\ subscribers = SelectSeq(before.subscribers, LAMBDA c : c # call.callback)
    /\ call.op = "assign" =>
          \A k \in 1..Len(log) : log[k].observer \in Range(before.subscribers)
    /\ WriteReturned =>
          \A cb \in Range(before.subscribers) : Invocations(cb) # {}

C13_Witness ==
    /\ Unsubscribed
    /\ returned = "True"
    /\ before.subscribers = <<Function("observer1"), Function("observer_after")>>
    /\ call.callback = Function("observer1")
    /\ subscribers = <<Function("observer_after")>>

\* A call of _observable_notify has finished.
NotifyDone == Idle /\ call.op = "notify"

C15_FacadeSameAsFunction ==
    (Idle /\ call.op = "Observable.subscribe"
          /\ call.name \in ObservableProperties) =>
        subscribers = IF Function(call.callback.fn) \in Range(before.subscribers)
                      THEN before.subscribers
                      ELSE Append(before.subscribers, Function(call.callback.fn))

\* C16: while a top-level write runs, and when it has ended, no observer
\* has been invoked more than once by it, nested writes included.
C16_InvokedAtMostOnce ==
    call.op = "assign" =>
        \A cb \in Range(before.subscribers) : Cardinality(Invocations(cb)) <= 1

Finished(k) == log[k].finish # 0

\* C18: an observer is invoked only when the body of every observer
\* invoked before it in the same write has run to its end, asynchronous
\* ones included; bodies end in subscription order; when the write
\* returns, the body of every subscribed observer has ended.
C18_AsyncRunToCompletion ==
    call.op = "assign" =>
        /\ \A k \in 1..Len(log) :
              /\ log[k].observer = before.subscribers[k]
              /\ k < Len(log) => Finished(k)
              /\ Finished(k) => log[k].finish = k
        /\ WriteReturned =>
              /\ Len(log) = Len(before.subscribers)
              /\ \A k \in 1..Len(log) : Finished(k)

C18_Witness ==
    /\ WriteReturned
    /\ Len(log) = 2
    /\ log[1].observer = Function("async_observer")
    /\ log[2].observer = Function("observer1")
    /\ log[1].finish = 1
    /\ log[2].finish = 2

\* C19: a write that returns has invoked exactly once every observer that
\* was subscribed when it began and is still subscribed when it ends, even
\* when an observer unsubscribed itself while it was notified.
C19_OthersStillNotified ==
    WriteReturned =>
        \A cb \in Range(before.subscribers) \cap Range(subscribers) :
            Cardinality(Invocations(cb)) = 1

\* C20: the guard belongs to the class.  When an observer notified of a
\* write to not_used assigns the property of item, the nested __set__
\* invokes no observer and raises the error of lines 111-114; the error
\* escapes the outer write and no instance's storage has changed.
C20_GuardShared ==
    (call.op = "assign" /\ call.instance # "item") =>
        /\ \A k \in 1..Len(log) : log[k].level = 1
        /\ (Level = 2 /\ Top.kind = "set") => (Top.instance = "item" /\ Top.i = 0)
        /\ (WriteDone /\ Reentered) =>
              /\ raised.text = MutationText
              /\ _value = before._value

C20_Witness ==
    /\ WriteRejected
    /\ call.instance = "not_used"
    /\ call.value = 1
    /\ Reentered
    /\ _value = before._value
====
